---- MODULE Spec2Model ----
(***************************************************************************)
(* Model of scripts/fetch_github_contributions.py: the per-(token, year)   *)
(* fetcher get_contributions_for_year, the merger merge_contributions and  *)
(* the orchestrator main.                                                  *)
(*                                                                         *)
(* Python dicts keep insertion order; a dict keyed by login is modelled as *)
(* a sequence of organization records with pairwise different logins.      *)
(* A year -> bucket dataset is a function whose domain is a set of year    *)
(* labels; a label is the string of decimal digits, modelled as the        *)
(* sequence of its digits, so that str(year) and the string comparison of  *)
(* sorted() are computed and not assumed.                                  *)
(***************************************************************************)
EXTENDS Integers, Sequences, FiniteSets, TLC

VARIABLES
    \* main(): pc is the position in the script; fetched logs the calls of
    \* the year in progress and auto_contributions keeps the dataset of the
    \* fetch loop as it was before line 219 rebinds all_contributions
    pc, tokens, current_year, year, tok, year_orgs, fetched,
    all_contributions, auto_contributions, manual, output_file, exit_status,
    \* one call of get_contributions_for_year on a drawn response
    f_response, f_result,
    \* one call of merge_contributions on drawn datasets, and a second merge
    m_auto, m_manual, m_merged, m_remerged

main_data == <<tokens, current_year, year, tok, year_orgs, fetched,
               all_contributions, auto_contributions, manual, output_file,
               exit_status>>
main_vars == <<pc, tokens, current_year, year, tok, year_orgs, fetched,
               all_contributions, auto_contributions, manual, output_file,
               exit_status>>
fetch_vars == <<f_response, f_result>>
merge_vars == <<m_auto, m_manual, m_merged, m_remerged>>
vars == <<main_vars, fetch_vars, merge_vars>>

(***************************************************************************)
(* Values                                                                  *)
(***************************************************************************)
\* Python None, also what dict.get gives for an absent key
None == "None"

GITHUB_USERNAME == "haythemsellami"

\* range(current_year, 2015, -1): the exclusive floor of the fetched years
FloorYear == 2015

\* the one status get_contributions_for_year accepts
HTTP_OK == 200

\* bounds of the model
MaxYears == 2
MaxTokenParts == 3
MaxManualOrgs == 2
MaxRepoEntries == 3
MaxBucketLen == 2

\* str.lower() on the identifiers the model uses
Lower(s) ==
    CASE s = "Acme" -> "acme"
      [] s = "HaythemSellami" -> "haythemsellami"
      [] OTHER -> s

\* truth value of an optional string: None and "" are falsy
Truthy(v) == v # None /\ v # ""

RECURSIVE Digits(_)
Digits(n) == IF n < 10 THEN <<n>> ELSE Append(Digits(n \div 10), n % 10)

\* str(year)
YearStr(y) == Digits(y)

\* the number a label of decimal digits denotes
RECURSIVE LabelValue(_)
LabelValue(label) ==
    IF label = <<>> THEN 0
    ELSE 10 * LabelValue(SubSeq(label, 1, Len(label) - 1)) + label[Len(label)]

\* a < b for Python strings of digits: lexicographic by code point
RECURSIVE StrLess(_, _)
StrLess(a, b) ==
    IF a = <<>> THEN b # <<>>
    ELSE IF b = <<>> THEN FALSE
    ELSE IF Head(a) < Head(b) THEN TRUE
    ELSE IF Head(a) > Head(b) THEN FALSE
    ELSE StrLess(Tail(a), Tail(b))

(***************************************************************************)
(* Ordered dicts keyed by login                                            *)
(***************************************************************************)
Logins(d) == {d[i].login : i \in DOMAIN d}

\* variant: a list append, without the key lookup
DictPutAppend(d, org) == Append(d, org)

\* d[org["login"]] = org : a present key keeps its position, a new key is appended
DictPut(d, org) ==
    IF org.login \in Logins(d)
    THEN [i \in DOMAIN d |-> IF d[i].login = org.login THEN org ELSE d[i]]
    ELSE Append(d, org)

\* {**d, **{org["login"]: org for org in lst}}
RECURSIVE DictUpdate(_, _)
DictUpdate(d, lst) ==
    IF lst = <<>> THEN d ELSE DictUpdate(DictPut(d, Head(lst)), Tail(lst))

\* {org["login"]: org for org in lst}
DictFromList(lst) == DictUpdate(<<>>, lst)

\* the empty dict {} as a dataset
EmptyDataset == [label \in {} |-> <<>>]

\* dataset.get(year, [])
BucketOf(dataset, label) ==
    IF label \in DOMAIN dataset THEN dataset[label] ELSE <<>>

(***************************************************************************)
(* merge_contributions                                                     *)
(***************************************************************************)
\* variant: {**manual_orgs, **auto_orgs}
CombinedAutoWins(auto_orgs, manual_orgs) == DictUpdate(manual_orgs, auto_orgs)

\* combined = {**auto_orgs, **manual_orgs}
Combined(auto_orgs, manual_orgs) == DictUpdate(auto_orgs, manual_orgs)

\* all_years = set(auto.keys()) | set(manual.keys())
AllYears(auto, manual_ds) == DOMAIN auto \cup DOMAIN manual_ds

merge_contributions(auto, manual_ds) ==
    [label \in AllYears(auto, manual_ds) |->
        Combined(DictFromList(BucketOf(auto, label)),
                 DictFromList(BucketOf(manual_ds, label)))]

(***************************************************************************)
(* get_contributions_for_year                                              *)
(***************************************************************************)
ContributionTypes ==
    <<"commitContributionsByRepository",
      "pullRequestContributionsByRepository",
      "issueContributionsByRepository">>

Owner(login, name, avatarUrl, url) ==
    [login |-> login, name |-> name, avatarUrl |-> avatarUrl, url |-> url]

\* the owner objects a response may carry: {} for an owner that is no
\* Organization, and organization objects with or without name and avatar
Owners ==
    { Owner(None, None, None, None),
      Owner("acme", "Acme Inc", "https://avatars/acme.png", "https://github.com/acme"),
      Owner("acme", None, "https://avatars/acme.png", "https://github.com/acme"),
      Owner("acme", "Acme Inc", "", "https://github.com/acme"),
      Owner("beta", "Beta", "https://avatars/beta.png", "https://github.com/beta"),
      Owner("HaythemSellami", "Haythem", "https://avatars/hs.png",
            "https://github.com/HaythemSellami") }

\* one element of a ...ContributionsByRepository list
RepoContrib(owner, isPrivate) ==
    [repository |-> [owner |-> owner, isPrivate |-> isPrivate]]

RepoContribs == {RepoContrib(o, p) : o \in Owners, p \in BOOLEAN}

\* data.user.contributionsCollection: the three lists
Collection(commits, prs, issues) ==
    [commitContributionsByRepository |-> commits,
     pullRequestContributionsByRepository |-> prs,
     issueContributionsByRepository |-> issues]

SeqsUpTo(S, n) == UNION {[1..k -> S] : k \in 0..n}

\* the entries s spread over the three lists: the first i are commits, the
\* next j - i pull requests, the rest issues
Spread(s, i, j) ==
    Collection(SubSeq(s, 1, i), SubSeq(s, i + 1, j), SubSeq(s, j + 1, Len(s)))

\* what requests.post and response.json() can produce: the request raises,
\* or a response with a status and a body that is no JSON ("malformed"),
\* holds a top-level "errors" key, or holds the data
Response(raises, status_code, body, collection) ==
    [raises |-> raises, status_code |-> status_code, body |-> body,
     collection |-> collection]

EmptyCollection == Collection(<<>>, <<>>, <<>>)

FailedResponses ==
    { Response(TRUE, 0, "none", EmptyCollection) }
    \cup { Response(FALSE, 401, b, EmptyCollection) : b \in {"malformed", "errors", "data"} }
    \cup { Response(FALSE, HTTP_OK, b, EmptyCollection) : b \in {"malformed", "errors"} }

DataResponse(collection) == Response(FALSE, HTTP_OK, "data", collection)

\* the three lists in the order the outer loop visits them
AllRepos(collection) ==
    collection[ContributionTypes[1]] \o collection[ContributionTypes[2]]
        \o collection[ContributionTypes[3]]

\* variant: login == username
IsSelfCaseSensitive(login, username) == login = username

\* login.lower() == username.lower()
IsSelf(login, username) == Lower(login) = Lower(username)

\* the two `continue` conditions of the inner loop
Skipped(owner, username) ==
    \/ ~Truthy(owner.login)
    \/ ~Truthy(owner.avatarUrl)
    \/ IsSelf(owner.login, username)

\* the record stored in orgs[login]
OrgRecord(owner) ==
    [login |-> owner.login,
     name |-> IF Truthy(owner.name) THEN owner.name ELSE owner.login,
     avatarUrl |-> owner.avatarUrl,
     url |-> owner.url]

\* one iteration of the inner loop on the accumulators orgs, orgs_with_public
ScanOne(acc, repo_contrib, username) ==
    LET repo == repo_contrib.repository
        owner == repo.owner
    IN  IF Skipped(owner, username) THEN acc
        ELSE [orgs_with_public |->
                 IF ~repo.isPrivate
                 THEN acc.orgs_with_public \cup {owner.login}
                 ELSE acc.orgs_with_public,
              orgs |->
                 IF owner.login \notin Logins(acc.orgs)
                 THEN Append(acc.orgs, OrgRecord(owner))
                 ELSE acc.orgs]

RECURSIVE Scan(_, _, _)
Scan(acc, repos, username) ==
    IF repos = <<>> THEN acc
    ELSE Scan(ScanOne(acc, Head(repos), username), Tail(repos), username)

\* variant: list(orgs.values())
ReturnedOrgsUnfiltered(acc) == acc.orgs

\* [org for org in orgs.values() if org["login"] in orgs_with_public]
ReturnedOrgs(acc) ==
    SelectSeq(acc.orgs, LAMBDA org : org.login \in acc.orgs_with_public)

\* a returned value or a raised exception
Returned(value) == [raised |-> FALSE, value |-> value]
Raised == [raised |-> TRUE, value |-> <<>>]

\* variant: without the status test of lines 112-113
get_contributions_unchecked_status(username, response) ==
    IF response.raises THEN Raised
    ELSE IF response.body = "malformed" THEN Raised
    ELSE IF response.body = "errors" THEN Returned(<<>>)
    ELSE Returned(ReturnedOrgs(
            Scan([orgs |-> <<>>, orgs_with_public |-> {}],
                 AllRepos(response.collection), username)))

get_contributions_for_year(username, response) ==
    IF response.raises THEN Raised
    ELSE IF response.status_code # HTTP_OK THEN Returned(<<>>)
    ELSE IF response.body = "malformed" THEN Raised
    ELSE IF response.body = "errors" THEN Returned(<<>>)
    ELSE Returned(ReturnedOrgs(
            Scan([orgs |-> <<>>, orgs_with_public |-> {}],
                 AllRepos(response.collection), username)))

\* a call of get_contributions_for_year on a drawn response; pc is "call"
\* before it and "returned" after it
FetchIdle == f_response = Response(TRUE, 0, "none", EmptyCollection) /\ f_result = Raised

\* a failed response, or a successful one holding at most MaxRepoEntries
\* entries spread in every way over the three lists
FetchInit ==
    /\ \/ f_response \in FailedResponses
       \/ \E s \in SeqsUpTo(RepoContribs, MaxRepoEntries) :
             \E i \in 0..Len(s) : \E j \in i..Len(s) :
                f_response = DataResponse(Spread(s, i, j))
    /\ f_result = Raised

CallFetcher ==
    /\ pc = "call"
    /\ f_result' = get_contributions_for_year(GITHUB_USERNAME, f_response)
    /\ pc' = "returned"
    /\ UNCHANGED <<f_response, main_data, merge_vars>>

(***************************************************************************)
(* merge_contributions on drawn datasets                                   *)
(***************************************************************************)
Org(login, name) ==
    [login |-> login, name |-> name,
     avatarUrl |-> "https://avatars/x.png", url |-> "https://github.com/x"]

MergeLabels == {YearStr(2020), YearStr(2021)}

MergeAutoOrgs == {Org("acme", "acme"), Org("acme", "Acme Inc")}
MergeManualOrgs == {Org("acme", "ACME (manual)"), Org("acme", "Acme Corp"),
                    Org("gamma", "Gamma")}

\* every dataset over the labels: a label is absent or maps to a bucket
Datasets(labels, orgs, n) ==
    UNION {[S -> SeqsUpTo(orgs, n)] : S \in SUBSET labels}

\* merge_contributions on drawn datasets, and a second merge of its result
\* with the same manual dataset; pc is "merge", "merge_again", "merged_twice"
MergeIdle ==
    /\ m_auto = EmptyDataset /\ m_manual = EmptyDataset
    /\ m_merged = EmptyDataset /\ m_remerged = EmptyDataset

MergeInit ==
    /\ m_auto \in Datasets(MergeLabels, MergeAutoOrgs, MaxBucketLen)
    /\ m_manual \in Datasets(MergeLabels, MergeManualOrgs, MaxBucketLen)
    /\ m_merged = EmptyDataset /\ m_remerged = EmptyDataset

Merge ==
    /\ pc = "merge"
    /\ m_merged' = merge_contributions(m_auto, m_manual)
    /\ pc' = "merge_again"
    /\ UNCHANGED <<m_auto, m_manual, m_remerged, main_data, fetch_vars>>

MergeAgain ==
    /\ pc = "merge_again"
    /\ m_remerged' = merge_contributions(m_merged, m_manual)
    /\ pc' = "merged_twice"
    /\ UNCHANGED <<m_auto, m_manual, m_merged, main_data, fetch_vars>>

(***************************************************************************)
(* Properties of merge_contributions (specification SpecMerge)             *)
(***************************************************************************)
\* the last record of lst with the login: the one a dict built from lst holds
LastWith(lst, login) ==
    lst[CHOOSE i \in DOMAIN lst :
            /\ lst[i].login = login
            /\ \A j \in DOMAIN lst : lst[j].login = login => j <= i]

NoRepeatedLogin(lst) ==
    \A i, j \in DOMAIN lst : lst[i].login = lst[j].login => i = j

HasRepeatedLogin(lst) == ~NoRepeatedLogin(lst)

\* C1: the merged dataset has exactly the year labels of either input, and
\* each merged bucket holds one record per identifier of either list: the
\* manual list's record, whole, when the manual list has the identifier,
\* and otherwise the automatic list's record unchanged.
C1_MergeManualWins ==
    pc \in {"merge_again", "merged_twice"} =>
        /\ DOMAIN m_merged = DOMAIN m_auto \cup DOMAIN m_manual
        /\ \A label \in DOMAIN m_merged :
            LET a == BucketOf(m_auto, label)
                m == BucketOf(m_manual, label)
                r == m_merged[label]
            IN  /\ Logins(r) = Logins(a) \cup Logins(m)
                /\ NoRepeatedLogin(r)
                /\ \A i \in DOMAIN r :
                      r[i] = IF r[i].login \in Logins(m)
                             THEN LastWith(m, r[i].login)
                             ELSE LastWith(a, r[i].login)

\* a merge where a manual record overrides an automatic record of another
\* name, and where some year comes from one side only
C1_Witness ==
    /\ pc \in {"merge_again", "merged_twice"}
    /\ DOMAIN m_auto # DOMAIN m_manual
    /\ \E label \in DOMAIN m_auto \cap DOMAIN m_manual :
          \E i \in DOMAIN m_auto[label], j \in DOMAIN m_manual[label], k \in DOMAIN m_merged[label] :
             /\ m_auto[label][i].login = m_manual[label][j].login
             /\ m_auto[label][i].name # m_manual[label][j].name
             /\ m_merged[label][k] = m_manual[label][j]

\* C6: merging the merged dataset with the same manual dataset again gives
\* the merged dataset, bucket contents and record order included.
C6_MergeIdempotent ==
    pc = "merged_twice" => m_remerged = m_merged

\* a second merge of datasets with a manual-only year, an automatic-only
\* year and buckets that repeat an identifier
C6_Witness ==
    /\ pc = "merged_twice"
    /\ DOMAIN m_manual \ DOMAIN m_auto # {}
    /\ DOMAIN m_auto \ DOMAIN m_manual # {}
    /\ \E label \in DOMAIN m_manual : HasRepeatedLogin(m_manual[label])
    /\ \E label \in DOMAIN m_auto : HasRepeatedLogin(m_auto[label])

(***************************************************************************)
(* Properties of get_contributions_for_year (specification SpecFetch)      *)
(***************************************************************************)
Succeeded(response) ==
    ~response.raises /\ response.status_code = HTTP_OK /\ response.body = "data"

\* the owner of the entry is extracted as an organization: it has an
\* identifier and an avatar URL and is not the subject user
Extracted(repo_contrib) ==
    LET owner == repo_contrib.repository.owner
    IN  /\ Truthy(owner.login)
        /\ Truthy(owner.avatarUrl)
        /\ Lower(owner.login) # Lower(GITHUB_USERNAME)

EntriesOf(response, login) ==
    LET repos == AllRepos(response.collection)
    IN  {i \in DOMAIN repos :
            Extracted(repos[i]) /\ repos[i].repository.owner.login = login}

IsPublicEntry(response, i) ==
    ~AllRepos(response.collection)[i].repository.isPrivate

\* C2: on a successful response an organization is returned if and only if
\* at least one of its repository entries, in any of the three categories
\* and at any position, is non-private (its entries being the ones whose
\* owner is extracted as an organization).
C2_PublicFilter ==
    (pc = "returned" /\ Succeeded(f_response)) =>
        /\ ~f_result.raised
        /\ \A o \in Owners :
              (o.login \in Logins(f_result.value))
                  <=> (\E i \in EntriesOf(f_response, o.login) :
                          IsPublicEntry(f_response, i))

\* one organization seen through a private entry first and a public one
\* later is returned, another seen only through private entries is not
C2_Witness ==
    /\ pc = "returned" /\ Succeeded(f_response)
    /\ \E i, j \in EntriesOf(f_response, "acme") :
          i < j /\ ~IsPublicEntry(f_response, i) /\ IsPublicEntry(f_response, j)
    /\ "acme" \in Logins(f_result.value)
    /\ EntriesOf(f_response, "beta") # {}
    /\ "beta" \notin Logins(f_result.value)

\* C9: no returned record has an identifier equal to the subject username
\* compared case-insensitively.
C9_SelfExcluded ==
    pc = "returned" =>
        \A i \in DOMAIN f_result.value :
            Lower(f_result.value[i].login) # Lower(GITHUB_USERNAME)

\* a successful call whose response has a public entry, with an avatar URL,
\* owned by the subject username in another letter case
C9_Witness ==
    /\ pc = "returned" /\ Succeeded(f_response)
    /\ \E i \in DOMAIN AllRepos(f_response.collection) :
          LET repo == AllRepos(f_response.collection)[i].repository
          IN  /\ repo.owner.login = "HaythemSellami"
              /\ Truthy(repo.owner.avatarUrl)
              /\ ~repo.isPrivate
    /\ f_result.value # <<>>

(***************************************************************************)
(* main                                                                    *)
(***************************************************************************)
\* str.strip() on the pieces of GITHUB_TOKEN the model uses
Strip(t) ==
    CASE t = " " -> ""
      [] t = " tokA " -> "tokA"
      [] OTHER -> t

\* the pieces token_str.split(",") gives; an unset variable gives <<"">>
TokenStrs ==
    UNION {[1..k -> {"", " ", " tokA "}] : k \in 1..MaxTokenParts}

\* [t.strip() for t in token_str.split(",") if t.strip()]
RECURSIVE ParseTokens(_)
ParseTokens(parts) ==
    IF parts = <<>> THEN <<>>
    ELSE IF Strip(Head(parts)) # ""
         THEN <<Strip(Head(parts))>> \o ParseTokens(Tail(parts))
         ELSE ParseTokens(Tail(parts))

\* datetime.now().year
CurrentYears == (FloorYear + 1)..(FloorYear + MaxYears)

\* variant: a year loop that does not advance
NextYearStuck(y) == y

\* the step -1 of range(current_year, 2015, -1)
NextYear(y) == y - 1

\* what the API answers to main's calls
AcmeNamed == Owner("acme", "Acme Inc", "https://avatars/acme.png", "https://github.com/acme")
AcmeUnnamed == Owner("acme", None, "https://avatars/acme.png", "https://github.com/acme")
Beta == Owner("beta", "Beta", "https://avatars/beta.png", "https://github.com/beta")
Self == Owner("HaythemSellami", "Haythem", "https://avatars/hs.png",
              "https://github.com/HaythemSellami")

ServerReplies ==
    FailedResponses \cup
    { DataResponse(EmptyCollection),
      DataResponse(Collection(<<RepoContrib(AcmeNamed, FALSE)>>, <<>>, <<>>)),
      DataResponse(Collection(<<RepoContrib(AcmeUnnamed, TRUE)>>, <<>>,
                              <<RepoContrib(Beta, FALSE), RepoContrib(AcmeUnnamed, FALSE)>>)),
      DataResponse(Collection(<<RepoContrib(Self, FALSE)>>, <<RepoContrib(Beta, TRUE)>>, <<>>)) }

\* which branch of get_contributions_for_year a response takes
Outcome(response) ==
    IF response.raises THEN "network_error"
    ELSE IF response.status_code # HTTP_OK THEN "bad_status"
    ELSE IF response.body = "malformed" THEN "malformed_body"
    ELSE IF response.body = "errors" THEN "errors_body"
    ELSE "ok"

\* variant: year_orgs[org["login"]] = org without the membership test
YearOrgsLastWins(orgs_dict, orgs) == DictUpdate(orgs_dict, orgs)

\* variant: a list extended with every returned record
YearOrgsNoDedup(orgs_dict, orgs) == orgs_dict \o orgs

\* for org in orgs: if org["login"] not in year_orgs: year_orgs[org["login"]] = org
RECURSIVE YearOrgsUpdate(_, _)
YearOrgsUpdate(orgs_dict, orgs) ==
    IF orgs = <<>> THEN orgs_dict
    ELSE YearOrgsUpdate(
            IF Head(orgs).login \notin Logins(orgs_dict)
            THEN Append(orgs_dict, Head(orgs)) ELSE orgs_dict,
            Tail(orgs))

\* dataset[label] = bucket
DatasetPut(dataset, label, bucket) ==
    [l \in DOMAIN dataset \cup {label} |->
        IF l = label THEN bucket ELSE dataset[l]]

\* variant: a year without organizations is not stored
DatasetSkipEmpty(dataset, label, bucket) ==
    IF bucket = <<>> THEN dataset ELSE DatasetPut(dataset, label, bucket)

\* lines 208-213: both branches store the year's list, empty or not
StoreYear(dataset, label, bucket) ==
    IF bucket # <<>> THEN DatasetPut(dataset, label, bucket)
    ELSE DatasetPut(dataset, label, <<>>)

\* manual-contributions.json
ManualOrgs == {Org("acme", "ACME (manual)"), Org("Acme", "Acme")}

ManualLabels == {YearStr(FloorYear - 1), YearStr(FloorYear + 1), YearStr(FloorYear + 2)}

\* load_manual_contributions(): {} when the file is absent or holds {},
\* otherwise the file's year buckets
ManualFiles ==
    {EmptyDataset} \cup
    { [l \in {label} |-> bucket] :
        label \in ManualLabels, bucket \in SeqsUpTo(ManualOrgs, MaxManualOrgs) }

\* variant: the sort without reverse=True
SortedAscending(dataset) ==
    LET keys == DOMAIN dataset
        Position(k) == Cardinality({o \in keys : StrLess(o, k)}) + 1
    IN  [i \in 1..Cardinality(keys) |->
            LET k == CHOOSE k \in keys : Position(k) = i
            IN  [key |-> k, value |-> dataset[k]]]

\* dict(sorted(all_contributions.items(), key=lambda x: x[0], reverse=True)):
\* the items by descending key.  The keys of a dict are distinct, so the
\* order of the items before the sort has no effect on the result, and an
\* item's position is one more than the number of greater keys.
SortedItems(dataset) ==
    LET keys == DOMAIN dataset
        Position(k) == Cardinality({o \in keys : StrLess(k, o)}) + 1
    IN  [i \in 1..Cardinality(keys) |->
            LET k == CHOOSE k \in keys : Position(k) = i
            IN  [key |-> k, value |-> dataset[k]]]

\* the variables of main before main has run; exit_status is <<>> while the
\* process runs and <<n>> once it has exited with status n
MainIdle ==
    /\ tokens = <<>> /\ current_year = 0 /\ year = 0 /\ tok = 0
    /\ year_orgs = <<>> /\ fetched = <<>> /\ all_contributions = EmptyDataset
    /\ auto_contributions = EmptyDataset /\ manual = EmptyDataset
    /\ output_file = <<>>
    /\ exit_status = <<>>

MainInit == pc = "import" /\ MainIdle

\* lines 26-30: the import guard
ImportRequests ==
    /\ pc = "import"
    /\ \E installed \in BOOLEAN :
          IF installed
          THEN pc' = "env" /\ exit_status' = exit_status
          ELSE pc' = "exit_no_requests" /\ exit_status' = <<1>>
    /\ UNCHANGED <<tokens, current_year, year, tok, year_orgs, fetched,
                   all_contributions, auto_contributions, manual, output_file,
                   fetch_vars, merge_vars>>

\* lines 184-199: the tokens, the year range, and the first year's empty dict
ReadEnv ==
    /\ pc = "env"
    /\ \E token_str \in TokenStrs : tokens' = ParseTokens(token_str)
    /\ \E now \in CurrentYears : current_year' = now /\ year' = now
    /\ all_contributions' = EmptyDataset
    /\ year_orgs' = <<>> /\ fetched' = <<>> /\ tok' = 1
    /\ pc' = "fetch"
    /\ UNCHANGED <<auto_contributions, manual, output_file, exit_status,
                   fetch_vars, merge_vars>>

\* lines 202-206: one token's call and the loop that adds its organizations;
\* an exception of the call is caught nowhere and ends the process
FetchToken ==
    /\ pc = "fetch" /\ tok <= Len(tokens)
    /\ \E response \in ServerReplies :
          LET orgs == get_contributions_for_year(GITHUB_USERNAME, response)
          IN  /\ fetched' = Append(fetched, [outcome |-> Outcome(response),
                                             orgs |-> orgs.value])
              /\ IF orgs.raised
                 THEN /\ pc' = "uncaught" /\ exit_status' = <<1>>
                      /\ UNCHANGED <<year_orgs, tok>>
                 ELSE /\ year_orgs' = YearOrgsUpdate(year_orgs, orgs.value)
                      /\ tok' = tok + 1
                      /\ UNCHANGED <<pc, exit_status>>
    /\ UNCHANGED <<tokens, current_year, year, all_contributions,
                   auto_contributions, manual, output_file, fetch_vars, merge_vars>>

\* lines 208-213 and the step of the year loop
EndYear ==
    /\ pc = "fetch" /\ tok > Len(tokens)
    /\ all_contributions' = StoreYear(all_contributions, YearStr(year), year_orgs)
    /\ year' = NextYear(year)
    /\ year_orgs' = <<>> /\ fetched' = <<>> /\ tok' = 1
    /\ pc' = IF NextYear(year) > FloorYear THEN "fetch" ELSE "manual"
    /\ UNCHANGED <<tokens, current_year, auto_contributions, manual, output_file,
                   exit_status, fetch_vars, merge_vars>>

\* lines 216-219: an empty manual dict is falsy and skips the merge
LoadAndMerge ==
    /\ pc = "manual"
    /\ \E file \in ManualFiles :
          /\ manual' = file
          /\ all_contributions' =
                IF DOMAIN file # {} THEN merge_contributions(all_contributions, file)
                ELSE all_contributions
    /\ auto_contributions' = all_contributions
    /\ pc' = "sort"
    /\ UNCHANGED <<tokens, current_year, year, tok, year_orgs, fetched,
                   output_file, exit_status, fetch_vars, merge_vars>>

\* lines 221-229: the items sorted by year label, newest first, written in
\* that order, and the process ends with status 0.  The sort rebinds
\* all_contributions to a dict of the same items, so the dataset keeps its
\* value and the new order is the order of the written items.
SortAndWrite ==
    /\ pc = "sort"
    /\ output_file' = SortedItems(all_contributions)
    /\ pc' = "done" /\ exit_status' = <<0>>
    /\ UNCHANGED <<tokens, current_year, year, tok, year_orgs, fetched,
                   all_contributions, auto_contributions, manual,
                   fetch_vars, merge_vars>>

(***************************************************************************)
(* Specifications                                                          *)
(***************************************************************************)
Init == MainInit /\ FetchIdle /\ MergeIdle

Next ==
    \/ ImportRequests
    \/ ReadEnv
    \/ FetchToken
    \/ EndYear
    \/ LoadAndMerge
    \/ SortAndWrite

Spec == Init /\ [][Next]_vars

\* the process is sequential and runs whenever it has a step to take
FairSpec == Spec /\ WF_vars(Next)

InitFetch == pc = "call" /\ MainIdle /\ FetchInit /\ MergeIdle
NextFetch == CallFetcher
SpecFetch == InitFetch /\ [][NextFetch]_vars

InitMerge == pc = "merge" /\ MainIdle /\ FetchIdle /\ MergeInit
NextMerge == Merge \/ MergeAgain
SpecMerge == InitMerge /\ [][NextMerge]_vars

(***************************************************************************)
(* Properties of main (specifications Spec and FairSpec)                   *)
(*                                                                         *)
(* fetched is the log of the calls made for the year in progress: the      *)
(* branch each call took and the list it returned.                         *)
(***************************************************************************)
RaisingOutcomes == {"network_error", "malformed_body"}
EmptyOutcomes == {"bad_status", "errors_body"}
FailureOutcomes == RaisingOutcomes \cup EmptyOutcomes

InRange(y) == y \in (FloorYear + 1)..current_year

C5_Original ==
    pc = "done" =>
        \A k \in DOMAIN output_file :
            \A i, j \in DOMAIN output_file[k].value :
                Lower(output_file[k].value[i].login) = Lower(output_file[k].value[j].login)
                    => i = j

\* C5: no bucket of the written file holds two records with the same
\* identifier, identifiers compared as they are written (case-sensitively).
C5_UniqueIdentifiers ==
    pc = "done" =>
        \A k \in DOMAIN output_file : NoRepeatedLogin(output_file[k].value)

\* a written bucket of two records where the manual file and the fetch had
\* the same identifier
C5_Witness ==
    /\ pc = "done"
    /\ \E k \in DOMAIN output_file :
          LET label == output_file[k].key
          IN  /\ Len(output_file[k].value) >= 2
              /\ Logins(BucketOf(manual, label))
                    \cap Logins(BucketOf(auto_contributions, label)) # {}

\* C7: the written file has a bucket for every year from the current year
\* down to the year after the floor, and the bucket of a year with nothing
\* fetched and no manual entries is the empty list.
C7_EveryYearPresent ==
    pc = "done" =>
        \A y \in (FloorYear + 1)..current_year :
            \E k \in DOMAIN output_file :
                /\ output_file[k].key = YearStr(y)
                /\ (/\ BucketOf(auto_contributions, YearStr(y)) = <<>>
                    /\ BucketOf(manual, YearStr(y)) = <<>>)
                        => output_file[k].value = <<>>

\* a written file of a run over two years or more, without tokens and
\* without a manual file: every bucket is there and empty
C7_Witness ==
    /\ pc = "done"
    /\ current_year > FloorYear + 1
    /\ tokens = <<>>
    /\ DOMAIN manual = {}
    /\ Len(output_file) >= 2
    /\ \A k \in DOMAIN output_file : output_file[k].value = <<>>

\* C8: the year keys of the written file are in descending year order.
C8_YearsDescending ==
    pc = "done" =>
        \A i, j \in DOMAIN output_file :
            i < j => LabelValue(output_file[i].key) > LabelValue(output_file[j].key)

\* a written file with a year that only the manual file has
C8_Witness ==
    /\ pc = "done"
    /\ Len(output_file) >= 3
    /\ \E k \in DOMAIN output_file : ~InRange(LabelValue(output_file[k].key))

\* C10: during a year, year_orgs holds one record per identifier that any
\* call of the year returned, and the record is the one of the earliest
\* call that returned the identifier; a call that returned nothing changes
\* nothing.
C10_FirstCredentialWins ==
    pc \in {"fetch", "uncaught"} =>
        /\ Logins(year_orgs) = UNION {Logins(fetched[i].orgs) : i \in DOMAIN fetched}
        /\ NoRepeatedLogin(year_orgs)
        /\ \A k \in DOMAIN year_orgs :
              \E i \in DOMAIN fetched :
                 /\ \E n \in DOMAIN fetched[i].orgs : fetched[i].orgs[n] = year_orgs[k]
                 /\ \A j \in 1..(i - 1) : year_orgs[k].login \notin Logins(fetched[j].orgs)

\* the first token's call failed and returned nothing, the second and the
\* third returned the same identifier under different names, and the year
\* holds the second's record
C10_Witness ==
    /\ pc = "fetch"
    /\ Len(fetched) = 3
    /\ fetched[1].outcome \in EmptyOutcomes
    /\ \E n \in DOMAIN fetched[2].orgs, m \in DOMAIN fetched[3].orgs :
          /\ fetched[2].orgs[n].login = fetched[3].orgs[m].login
          /\ fetched[2].orgs[n].name # fetched[3].orgs[m].name
          /\ \E k \in DOMAIN year_orgs : year_orgs[k] = fetched[2].orgs[n]
    /\ Len(year_orgs) = 2

====
